---- MODULE Spec2Model ----
(***************************************************************************)
(* Model of backend/sandbox/sandbox.py: the backend selector, the local    *)
(* docker-compose sandbox (memoized in _local_sandbox) and the lifecycle   *)
(* operations get_or_start_sandbox, start_supervisord_session,             *)
(* create_sandbox and delete_sandbox.                                      *)
(* LocalProcess and LocalFS, the operations of the local handle, are       *)
(* modelled on the handle the local backend returned (SpecOps,            *)
(* SpecSession); SpecRace lets two threads drive the local lifecycle.      *)
(*                                                                         *)
(* Strings that the code trims or tests for emptiness are sequences of     *)
(* tokens; " " and "\n" are the whitespace tokens.  Every external call    *)
(* (Daytona API, docker CLI) is one step of the calling thread, and its    *)
(* outcome (success, or the exception / non-zero exit) is chosen           *)
(* nondeterministically.                                                   *)
(***************************************************************************)
EXTENDS Integers, Sequences, FiniteSets, TLC

\* ------------------------------------------------------------------ bounds
MaxCalls == 3          \* lifecycle calls in one behaviour
MaxOps == 2            \* operations on the local handle after it was returned

\* ----------------------------------------------------------------- domains
Threads == {1, 2}
Whitespace == {" ", "\n"}
Ids == {<<"sb-1">>, <<"sb-2">>}
Passwords == {<<"pw">>, <<"pw2">>}
ProjectIds == {<<>>, <<"proj">>}
\* values of DAYTONA_API_KEY: unset (the default ""), blank, set, set with
\* surrounding whitespace
Creds == {<<>>, <<" ">>, <<" ", "\n">>, <<"k">>, <<" ", "k", "\n">>}

ARCHIVED == "archived"
STOPPED == "stopped"
STARTED == "started"
STARTING == "starting"
ABSENT == "absent"
LiveStates == {ARCHIVED, STOPPED, STARTED, STARTING}

SupervisordSession == <<"supervisord-session">>
SupervisordCommand == <<"exec /usr/bin/supervisord -n -c /etc/supervisor/conf.d/supervisord.conf">>
LocalSentinel == <<"local-sandbox">>

VARIABLES
    daytona_api_key,  \* value of the environment variable at import ("" when unset)
    use_daytona,      \* _use_daytona
    local_sandbox,    \* _local_sandbox (None is NoHandle)
    container,        \* docker: number of the running kortix-suna container, 0 if none
    nextContainer,    \* docker: number the next created container gets
    nextObj,          \* identity the next constructed handle object gets
    remote,           \* Daytona: state of each sandbox id
    supervised,       \* Daytona: supervisord was launched since the sandbox last booted
    awaiting,         \* ids a daytona.start call returned for, with no supervisord
                      \* command submitted since
    owners,           \* the threads that drive lifecycle calls
    pc,               \* per thread: position in the running call
    op,               \* per thread: the running / last call
    arg,              \* per thread: its arguments
    sandbox,          \* per thread: the local variable sandbox
    log,              \* per thread: external calls made by the running / last call
    ret,              \* per thread: outcome of the last call
    entry,            \* per thread: _local_sandbox as the running / last call found it
    prev,             \* per thread: the call before the running / last one
    calls,            \* number of calls begun
    tmux,             \* container: per session name, whether it exists, the keys sent
                      \* to it and not yet typed, and the text of its pane
    dirs,             \* container: mode of each directory, or "absent"
    files,            \* container: data and mode of each file, or NoFile
    last,             \* the last operation made on the local handle and its outcome
    nops              \* number of operations on the local handle that changed it

dockerVars == <<container, nextContainer>>
remoteVars == <<remote, supervised, awaiting>>
opsVars == <<tmux, dirs, files, last, nops>>
selVars == <<daytona_api_key, use_daytona, owners>>
vars == <<daytona_api_key, use_daytona, local_sandbox, container,
          nextContainer, nextObj, remote, supervised, owners, pc, op, arg,
          sandbox, log, ret, entry, prev, calls, awaiting, tmux, dirs, files,
          last, nops>>

\* ----------------------------------------------------------------- strings
RECURSIVE LStrip(_)
LStrip(s) == IF s # <<>> /\ Head(s) \in Whitespace THEN LStrip(Tail(s)) ELSE s

RECURSIVE RStrip(_)
RStrip(s) ==
    IF s # <<>> /\ s[Len(s)] \in Whitespace THEN RStrip(SubSeq(s, 1, Len(s) - 1)) ELSE s

Strip(s) == RStrip(LStrip(s))

\* bool(str): a string is truthy iff it is not empty
Truthy(s) == s # <<>>

\* ------------------------------------------------------------------ values
NoHandle == [obj |-> 0, id |-> <<>>, state |-> "none"]
LocalSandbox(container_id, o) == [obj |-> o, id |-> container_id, state |-> "local"]
RemoteSandbox(i, o) == [obj |-> o, id |-> i, state |-> remote[i]]
\* a handle the caller holds from elsewhere
HeldHandle(i) == [obj |-> 0, id |-> i, state |-> "held"]

Returned(h) == [kind |-> "handle", h |-> h]
RetTrue == [kind |-> "true", h |-> NoHandle]
RetNone == [kind |-> "none", h |-> NoHandle]
Raised == [kind |-> "raise", h |-> NoHandle]
Pending == [kind |-> "pending", h |-> NoHandle]

NoArgs == [id |-> <<>>, password |-> <<>>, project_id |-> <<>>, h |-> NoHandle]
NoCall == [op |-> "none", arg |-> NoArgs, ret |-> Pending, log |-> <<>>,
           entry |-> NoHandle]

\* one external call: its name, whether it returned normally, the handle it
\* was given or returned, and its remaining arguments
Ev(c, ok, h, x) == [c |-> c, ok |-> ok, h |-> h, x |-> x]

RemoteCalls == {"get_current_sandbox", "start", "create", "remove",
                "create_session", "execute_session_command"}
DockerCalls == {"compose_up", "compose_ps", "compose_down"}

\* the runtime-assigned id of the n-th container created (n tokens)
ContainerName(n) == [k \in 1..n |-> "c"]
\* stdout of `docker compose ps -q kortix-suna`: one id per line, nothing if
\* the service has no running container
PsOutput(n) == IF n = 0 THEN <<>> ELSE ContainerName(n) \o <<"\n">>

\* ------------------------------------------- the local handle's operations
SessionIds == {<<"s1">>, <<"s2">>}
Commands == {<<"echo", " ", "hi">>, <<"true">>}
Paths == {<<"f">>, <<"-", "f">>, <<"a", " ", "'", "b">>}
FolderPaths == {<<"d">>}
Data == {<<>>, <<"x">>, <<"y", "z">>}
Modes == {"755", "600"}
Timeouts == {1, 2}
Durations == {1, 2, 3}
Outputs == {<<>>, <<"o">>}

NoSession == [alive |-> FALSE, keys |-> <<>>, pane |-> <<>>]
NoFile == [data |-> <<>>, mode |-> "absent"]

\* outcomes of an operation on the handle
OutNone == [kind |-> "none", code |-> 0, text |-> <<>>]
ExecResult(exit_code, result) == [kind |-> "ExecResult", code |-> exit_code, text |-> result]
OutText(text) == [kind |-> "value", code |-> 0, text |-> text]
TimeoutExpired == [kind |-> "TimeoutExpired", code |-> 0, text |-> <<>>]
CalledProcessError == [kind |-> "CalledProcessError", code |-> 0, text |-> <<>>]

NoBefore == [op |-> "none", a |-> <<>>, b |-> <<>>, exits |-> <<>>]
NoOp == [op |-> "none", a |-> <<>>, b |-> <<>>, x |-> <<>>, exits |-> <<>>,
         out |-> OutNone, before |-> NoBefore]
\* the operation o(a, b) ran docker invocations that exited with exits and
\* ended with out; x holds its numeric arguments, before the operation that
\* preceded it
Op(o, a, b, x, exits, out) ==
    [op |-> o, a |-> a, b |-> b, x |-> x, exits |-> exits, out |-> out,
     before |-> [op |-> last.op, a |-> last.a, b |-> last.b, exits |-> last.exits]]

\* ------------------------------------------------------------------- state
Idle(t) == pc[t] = "idle"
Active == {t \in Threads : pc[t] # "idle"}
CanCall(t) ==
    /\ t \in owners
    /\ Idle(t)
    /\ calls < MaxCalls

TypeOK ==
    /\ daytona_api_key \in Creds
    /\ use_daytona \in BOOLEAN
    /\ container \in Nat
    /\ remote \in [Ids -> LiveStates \cup {ABSENT}]
    /\ supervised \in [Ids -> BOOLEAN]
    /\ owners \subseteq Threads

InitCommon ==
    /\ daytona_api_key \in Creds
    /\ use_daytona = Truthy(Strip(daytona_api_key))
    /\ local_sandbox = NoHandle
    /\ container = 0
    /\ nextContainer = 1
    /\ nextObj = 1
    /\ IF use_daytona
          THEN /\ remote \in [Ids -> {ARCHIVED, STOPPED, STARTED, ABSENT}]
               /\ supervised = [i \in Ids |-> remote[i] = STARTED]
          ELSE /\ remote = [i \in Ids |-> ABSENT]
               /\ supervised = [i \in Ids |-> FALSE]
    /\ pc = [t \in Threads |-> "idle"]
    /\ op = [t \in Threads |-> "none"]
    /\ arg = [t \in Threads |-> NoArgs]
    /\ sandbox = [t \in Threads |-> NoHandle]
    /\ log = [t \in Threads |-> <<>>]
    /\ ret = [t \in Threads |-> Pending]
    /\ entry = [t \in Threads |-> NoHandle]
    /\ prev = [t \in Threads |-> NoCall]
    /\ calls = 0
    /\ awaiting = {}
    /\ tmux = [s \in SessionIds |-> NoSession]
    /\ dirs = [d \in FolderPaths |-> "absent"]
    /\ files = [f \in Paths |-> NoFile]
    /\ last = NoOp
    /\ nops = 0

Init == InitCommon /\ owners = {1}

\* ------------------------------------------------------- call bookkeeping
CallRec(t) == [op |-> op[t], arg |-> arg[t], ret |-> ret[t], log |-> log[t],
               entry |-> entry[t]]

Begin(t, o, a, first) ==
    /\ pc' = [pc EXCEPT ![t] = first]
    /\ op' = [op EXCEPT ![t] = o]
    /\ arg' = [arg EXCEPT ![t] = a]
    /\ sandbox' = [sandbox EXCEPT ![t] = a.h]
    /\ log' = [log EXCEPT ![t] = <<>>]
    /\ ret' = [ret EXCEPT ![t] = Pending]
    /\ entry' = [entry EXCEPT ![t] = local_sandbox]
    /\ prev' = [prev EXCEPT ![t] = CallRec(t)]
    /\ calls' = calls + 1

\* the running call of t makes the external calls evs (in order) and goes on at next
Step(t, evs, next) ==
    /\ pc' = [pc EXCEPT ![t] = next]
    /\ log' = [log EXCEPT ![t] = @ \o evs]
    /\ UNCHANGED <<op, arg, ret, entry, prev, calls>>

\* the running call of t makes the external calls evs and ends with outcome r
Finish(t, evs, r) ==
    /\ pc' = [pc EXCEPT ![t] = "idle"]
    /\ log' = [log EXCEPT ![t] = @ \o evs]
    /\ ret' = [ret EXCEPT ![t] = r]
    /\ UNCHANGED <<op, arg, entry, prev, calls>>

\* ------------------------------------------------------------ local backend
\* the negation of `_local_sandbox is None`
Tracked_Never == FALSE
Tracked == local_sandbox # NoHandle

ensure_local_sandbox_up_Unchecked(t) ==
    /\ pc[t] = "ensure_up"
    /\ IF Tracked
          THEN /\ Finish(t, <<>>, Returned(local_sandbox))
               /\ UNCHANGED dockerVars
          ELSE \E ok \in BOOLEAN :
                 /\ UNCHANGED dockerVars
                 /\ Step(t, <<Ev("compose_up", ok, NoHandle, <<>>)>>, "ensure_ps")
    /\ UNCHANGED <<selVars, opsVars, local_sandbox, nextObj, remoteVars, sandbox>>

\* _ensure_local_sandbox, up to and including `docker compose up -d`
\* (check=True: a non-zero exit raises CalledProcessError)
ensure_local_sandbox_up(t) ==
    /\ pc[t] = "ensure_up"
    /\ IF Tracked
          THEN /\ Finish(t, <<>>, Returned(local_sandbox))
               /\ UNCHANGED dockerVars
          ELSE \E ok \in BOOLEAN :
                 IF ok
                    THEN /\ container' = IF container = 0 THEN nextContainer ELSE container
                         /\ nextContainer' =
                               IF container = 0 THEN nextContainer + 1 ELSE nextContainer
                         /\ Step(t, <<Ev("compose_up", TRUE, NoHandle, <<>>)>>, "ensure_ps")
                    ELSE /\ UNCHANGED dockerVars
                         /\ Finish(t, <<Ev("compose_up", FALSE, NoHandle, <<>>)>>, Raised)
    /\ UNCHANGED <<selVars, opsVars, local_sandbox, nextObj, remoteVars, sandbox>>

\* _ensure_local_sandbox, from `docker compose ps -q` (check_output raises on a
\* non-zero exit) to the return of the memoized handle
ensure_local_sandbox_ps(t) ==
    /\ pc[t] = "ensure_ps"
    /\ \/ /\ Finish(t, <<Ev("compose_ps", FALSE, NoHandle, <<>>)>>, Raised)
          /\ UNCHANGED <<local_sandbox, nextObj>>
       \/ \E out \in {PsOutput(container), PsOutput(0)} :
             LET container_id == Strip(out)
                 h == LocalSandbox(IF Truthy(container_id) THEN container_id
                                                            ELSE LocalSentinel, nextObj)
             IN  /\ local_sandbox' = h
                 /\ nextObj' = nextObj + 1
                 /\ Finish(t, <<Ev("compose_ps", TRUE, NoHandle, out)>>, Returned(h))
    /\ UNCHANGED <<selVars, opsVars, dockerVars, remoteVars, sandbox>>

\* globals()["_local_sandbox"] = None
ClearedSandbox_Kept == local_sandbox
ClearedSandbox == NoHandle

\* subprocess.run(..., check=False) never raises on a non-zero exit, and the
\* function returns True
LocalDeleteResult_Checked(ok) == IF ok THEN RetTrue ELSE Raised
LocalDeleteResult(ok) == RetTrue

\* delete_sandbox on the local backend: `docker compose down` (check=False),
\* then _local_sandbox = None and return True
delete_sandbox_local(t) ==
    /\ pc[t] = "del_down"
    /\ \E ok \in BOOLEAN :
         /\ container' = IF ok THEN 0 ELSE container
         /\ Finish(t, <<Ev("compose_down", ok, NoHandle, <<>>)>>, LocalDeleteResult(ok))
    /\ local_sandbox' = ClearedSandbox
    /\ UNCHANGED <<selVars, opsVars, nextContainer, nextObj, remoteVars, sandbox>>

\* ----------------------------------------------------------- remote backend
\* daytona.get_current_sandbox(id): a handle carrying the state the API
\* reports now, or an exception (always one if no such sandbox exists)
GetOutcomes(i) == IF remote[i] = ABSENT THEN {FALSE} ELSE BOOLEAN

\* the state test of get_or_start_sandbox
NeedsStart_Always(h) == TRUE
NeedsStart(h) == h.state = ARCHIVED \/ h.state = STOPPED

\* get_or_start_sandbox: sandbox = daytona.get_current_sandbox(sandbox_id)
\* and the state test; a sandbox that needs no start is returned at once
get_or_start_fetch(t) ==
    /\ pc[t] = "gos_get"
    /\ \E ok \in GetOutcomes(arg[t].id) :
         LET h == RemoteSandbox(arg[t].id, nextObj)
             ev == Ev("get_current_sandbox", ok, IF ok THEN h ELSE NoHandle, arg[t].id)
         IN  IF ok
                THEN /\ sandbox' = [sandbox EXCEPT ![t] = h]
                     /\ nextObj' = nextObj + 1
                     /\ IF NeedsStart(h)
                           THEN Step(t, <<ev>>, "gos_start")
                           ELSE Finish(t, <<ev>>, Returned(h))
                ELSE /\ UNCHANGED <<sandbox, nextObj>>
                     /\ Finish(t, <<ev>>, Raised)
    /\ UNCHANGED <<selVars, opsVars, local_sandbox, dockerVars, remoteVars>>

get_or_start_start_Swallowed(t) ==
    /\ pc[t] = "gos_start"
    /\ \E ok \in BOOLEAN : Step(t, <<Ev("start", ok, sandbox[t], <<>>)>>, "gos_refetch")
    /\ UNCHANGED <<selVars, opsVars, local_sandbox, dockerVars, remoteVars, nextObj,
                   sandbox>>

\* get_or_start_sandbox: daytona.start(sandbox); the API accepts the request
\* and the sandbox boots on the remote side
get_or_start_start(t) ==
    /\ pc[t] = "gos_start"
    /\ LET i == sandbox[t].id IN
       \E ok \in GetOutcomes(i) :
         /\ IF ok /\ remote[i] \in {ARCHIVED, STOPPED}
               THEN /\ remote' = [remote EXCEPT ![i] = STARTING]
                    /\ supervised' = [supervised EXCEPT ![i] = FALSE]
               ELSE UNCHANGED <<remote, supervised>>
         /\ awaiting' = IF ok THEN awaiting \cup {i} ELSE awaiting
         /\ IF ok
               THEN Step(t, <<Ev("start", TRUE, sandbox[t], <<>>)>>, "gos_refetch")
               ELSE Finish(t, <<Ev("start", FALSE, sandbox[t], <<>>)>>, Raised)
    /\ UNCHANGED <<selVars, opsVars, local_sandbox, dockerVars, nextObj, sandbox>>

get_or_start_refetch_Skipped(t) ==
    /\ pc[t] = "gos_refetch"
    /\ Step(t, <<>>, "sup_create")
    /\ UNCHANGED <<selVars, opsVars, local_sandbox, dockerVars, remoteVars, sandbox, nextObj>>

\* get_or_start_sandbox: sandbox = daytona.get_current_sandbox(sandbox_id)
\* after the start; nothing tests the state it reports
get_or_start_refetch(t) ==
    /\ pc[t] = "gos_refetch"
    /\ \E ok \in GetOutcomes(arg[t].id) :
         LET h == RemoteSandbox(arg[t].id, nextObj)
             ev == Ev("get_current_sandbox", ok, IF ok THEN h ELSE NoHandle, arg[t].id)
         IN  IF ok
                THEN /\ sandbox' = [sandbox EXCEPT ![t] = h]
                     /\ nextObj' = nextObj + 1
                     /\ Step(t, <<ev>>, "sup_create")
                ELSE /\ UNCHANGED <<sandbox, nextObj>>
                     /\ Finish(t, <<ev>>, Raised)
    /\ UNCHANGED <<selVars, opsVars, local_sandbox, dockerVars, remoteVars>>

supervisord_create_session_Swallowed(t) ==
    /\ pc[t] = "sup_create"
    /\ \E ok \in BOOLEAN :
         Step(t, <<Ev("create_session", ok, sandbox[t], SupervisordSession)>>, "sup_exec")
    /\ UNCHANGED <<selVars, opsVars, local_sandbox, dockerVars, remoteVars, nextObj, sandbox>>

\* start_supervisord_session: sandbox.process.create_session(session_id); an
\* exception leaves through `raise e`
supervisord_create_session(t) ==
    /\ pc[t] = "sup_create"
    /\ \E ok \in BOOLEAN :
         LET ev == Ev("create_session", ok, sandbox[t], SupervisordSession)
         IN  IF ok THEN Step(t, <<ev>>, "sup_exec") ELSE Finish(t, <<ev>>, Raised)
    /\ UNCHANGED <<selVars, opsVars, local_sandbox, dockerVars, remoteVars, nextObj, sandbox>>

\* what the caller of start_supervisord_session returns once it came back
AfterSupervisord(t) ==
    IF op[t] = "start_supervisord_session" THEN RetNone ELSE Returned(sandbox[t])

\* start_supervisord_session: sandbox.process.execute_session_command(
\* session_id, SessionExecuteRequest(command, var_async=True)), then the
\* return of the caller (get_or_start_sandbox, create_sandbox or the direct call)
supervisord_execute(t) ==
    /\ pc[t] = "sup_exec"
    /\ \E ok \in BOOLEAN :
         LET i == sandbox[t].id
             ev == Ev("execute_session_command", ok, sandbox[t],
                      SupervisordSession \o SupervisordCommand \o <<"var_async">>)
         IN  /\ supervised' = IF ok /\ remote[i] \in {STARTING, STARTED}
                                 THEN [supervised EXCEPT ![i] = TRUE]
                                 ELSE supervised
             /\ awaiting' = IF ok THEN awaiting \ {i} ELSE awaiting
             /\ Finish(t, <<ev>>, IF ok THEN AfterSupervisord(t) ELSE Raised)
    /\ UNCHANGED <<selVars, opsVars, local_sandbox, dockerVars, remote, nextObj, sandbox>>

\* labels of CreateSandboxParams: {'id': project_id} if project_id else None
Labels(project_id) == IF Truthy(project_id) THEN <<"id">> \o project_id ELSE <<>>

create_sandbox_provision_NoBootstrap(t) ==
    /\ pc[t] = "create_provision"
    /\ \E i \in {j \in Ids : remote[j] = ABSENT} :
         LET h == [obj |-> nextObj, id |-> i, state |-> STARTED]
         IN  /\ remote' = [remote EXCEPT ![i] = STARTED]
             /\ sandbox' = [sandbox EXCEPT ![t] = h]
             /\ nextObj' = nextObj + 1
             /\ Finish(t, <<Ev("create", TRUE, h, <<>>)>>, Returned(h))
    /\ UNCHANGED <<selVars, opsVars, local_sandbox, dockerVars, supervised, awaiting>>

\* create_sandbox: sandbox = daytona.create(params); an exception propagates
create_sandbox_provision(t) ==
    /\ pc[t] = "create_provision"
    /\ LET x == <<"VNC_PASSWORD">> \o arg[t].password \o <<"labels">>
                 \o Labels(arg[t].project_id)
       IN \/ /\ Finish(t, <<Ev("create", FALSE, NoHandle, x)>>, Raised)
             /\ UNCHANGED <<remoteVars, nextObj, sandbox>>
          \/ \E i \in {j \in Ids : remote[j] = ABSENT} :
               LET h == [obj |-> nextObj, id |-> i, state |-> STARTED]
               IN  /\ remote' = [remote EXCEPT ![i] = STARTED]
                   /\ supervised' = [supervised EXCEPT ![i] = FALSE]
                   /\ awaiting' = awaiting
                   /\ sandbox' = [sandbox EXCEPT ![t] = h]
                   /\ nextObj' = nextObj + 1
                   /\ Step(t, <<Ev("create", TRUE, h, x)>>, "sup_create")
    /\ UNCHANGED <<selVars, opsVars, local_sandbox, dockerVars>>

\* delete_sandbox: sandbox = daytona.get_current_sandbox(sandbox_id)
delete_sandbox_fetch(t) ==
    /\ pc[t] = "del_get"
    /\ \E ok \in GetOutcomes(arg[t].id) :
         LET h == RemoteSandbox(arg[t].id, nextObj)
             ev == Ev("get_current_sandbox", ok, IF ok THEN h ELSE NoHandle, arg[t].id)
         IN  IF ok
                THEN /\ sandbox' = [sandbox EXCEPT ![t] = h]
                     /\ nextObj' = nextObj + 1
                     /\ Step(t, <<ev>>, "del_remove")
                ELSE /\ UNCHANGED <<sandbox, nextObj>>
                     /\ Finish(t, <<ev>>, Raised)
    /\ UNCHANGED <<selVars, opsVars, local_sandbox, dockerVars, remoteVars>>

\* delete_sandbox: True once remove returned, `raise e` if it raised
RemoteDeleteResult_Swallow(ok) == RetTrue
RemoteDeleteResult(ok) == IF ok THEN RetTrue ELSE Raised

\* delete_sandbox: daytona.remove(sandbox), then return True
delete_sandbox_remove(t) ==
    /\ pc[t] = "del_remove"
    /\ LET i == sandbox[t].id IN
       \E ok \in GetOutcomes(i) :
         /\ remote' = IF ok THEN [remote EXCEPT ![i] = ABSENT] ELSE remote
         /\ supervised' = IF ok THEN [supervised EXCEPT ![i] = FALSE] ELSE supervised
         /\ awaiting' = IF ok THEN awaiting \ {i} ELSE awaiting
         /\ Finish(t, <<Ev("remove", ok, sandbox[t], <<>>)>>, RemoteDeleteResult(ok))
    /\ UNCHANGED <<selVars, opsVars, local_sandbox, dockerVars, nextObj, sandbox>>

\* the remote side finishes booting a sandbox that was asked to start
RemoteSettle(i) ==
    /\ remote[i] = STARTING
    /\ remote' = [remote EXCEPT ![i] = STARTED]
    /\ UNCHANGED <<selVars, opsVars, local_sandbox, dockerVars, nextObj, supervised,
                   awaiting, pc, op, arg, sandbox, log, ret, entry, prev, calls>>

\* ------------------------------------------------------------ entry points
\* get_or_start_sandbox(sandbox_id): `if not _use_daytona` picks the backend
get_or_start_sandbox(t, sandbox_id) ==
    /\ CanCall(t)
    /\ Begin(t, "get_or_start_sandbox", [NoArgs EXCEPT !.id = sandbox_id],
             IF ~use_daytona THEN "ensure_up" ELSE "gos_get")
    /\ UNCHANGED <<selVars, opsVars, local_sandbox, dockerVars, remoteVars, nextObj>>

\* create_sandbox(password, project_id)
create_sandbox(t, password, project_id) ==
    /\ CanCall(t)
    /\ Begin(t, "create_sandbox",
             [NoArgs EXCEPT !.password = password, !.project_id = project_id],
             IF ~use_daytona THEN "ensure_up" ELSE "create_provision")
    /\ UNCHANGED <<selVars, opsVars, local_sandbox, dockerVars, remoteVars, nextObj>>

delete_sandbox_Unguarded(t, sandbox_id) ==
    /\ CanCall(t)
    /\ Begin(t, "delete_sandbox", [NoArgs EXCEPT !.id = sandbox_id], "del_get")
    /\ UNCHANGED <<selVars, opsVars, local_sandbox, dockerVars, remoteVars, nextObj>>

\* delete_sandbox(sandbox_id)
delete_sandbox(t, sandbox_id) ==
    /\ CanCall(t)
    /\ Begin(t, "delete_sandbox", [NoArgs EXCEPT !.id = sandbox_id],
             IF ~use_daytona THEN "del_down" ELSE "del_get")
    /\ UNCHANGED <<selVars, opsVars, local_sandbox, dockerVars, remoteVars, nextObj>>

\* start_supervisord_session(sandbox) called directly: on the local backend
\* it returns at once
start_supervisord_session(t, h) ==
    /\ CanCall(t)
    /\ IF ~use_daytona
          THEN /\ pc' = pc
               /\ op' = [op EXCEPT ![t] = "start_supervisord_session"]
               /\ arg' = [arg EXCEPT ![t] = [NoArgs EXCEPT !.h = h]]
               /\ sandbox' = [sandbox EXCEPT ![t] = h]
               /\ log' = [log EXCEPT ![t] = <<>>]
               /\ ret' = [ret EXCEPT ![t] = RetNone]
               /\ entry' = [entry EXCEPT ![t] = local_sandbox]
               /\ prev' = [prev EXCEPT ![t] = CallRec(t)]
               /\ calls' = calls + 1
          ELSE Begin(t, "start_supervisord_session", [NoArgs EXCEPT !.h = h],
                     "sup_create")
    /\ UNCHANGED <<selVars, opsVars, local_sandbox, dockerVars, remoteVars, nextObj>>

\* the handles a caller can pass: the ones the last calls returned, and one
\* per sandbox id obtained elsewhere
CallerHandles ==
    {ret[t].h : t \in {u \in Threads : ret[u].kind = "handle"}}
        \cup {HeldHandle(i) : i \in Ids}

Next ==
    \/ \E t \in Threads, i \in Ids : get_or_start_sandbox(t, i)
    \/ \E t \in Threads, pw \in Passwords, pr \in ProjectIds : create_sandbox(t, pw, pr)
    \/ \E t \in Threads, i \in Ids : delete_sandbox(t, i)
    \/ \E t \in Threads, h \in CallerHandles : start_supervisord_session(t, h)
    \/ \E t \in Threads : ensure_local_sandbox_up(t)
    \/ \E t \in Threads : ensure_local_sandbox_ps(t)
    \/ \E t \in Threads : delete_sandbox_local(t)
    \/ \E t \in Threads : get_or_start_fetch(t)
    \/ \E t \in Threads : get_or_start_start(t)
    \/ \E t \in Threads : get_or_start_refetch(t)
    \/ \E t \in Threads : supervisord_create_session(t)
    \/ \E t \in Threads : supervisord_execute(t)
    \/ \E t \in Threads : create_sandbox_provision(t)
    \/ \E t \in Threads : delete_sandbox_fetch(t)
    \/ \E t \in Threads : delete_sandbox_remove(t)
    \/ \E i \in Ids : RemoteSettle(i)

Spec == Init /\ [][Next]_vars

\* the local backend driven by one owner or by two threads whose calls
\* interleave at the docker invocations
InitRace == InitCommon /\ ~use_daytona /\ owners \in {{1}, Threads}

\* the local branches ignore their arguments (lines 256-258, 313-314, 362-366)
LocalId == CHOOSE i \in Ids : TRUE
LocalPassword == CHOOSE pw \in Passwords : TRUE
LocalProjectId == CHOOSE pr \in ProjectIds : TRUE

NextLocal ==
    \/ \E t \in Threads : get_or_start_sandbox(t, LocalId)
    \/ \E t \in Threads : create_sandbox(t, LocalPassword, LocalProjectId)
    \/ \E t \in Threads : delete_sandbox(t, LocalId)
    \/ \E t \in Threads : ensure_local_sandbox_up(t)
    \/ \E t \in Threads : ensure_local_sandbox_ps(t)
    \/ \E t \in Threads : delete_sandbox_local(t)

SpecRace == InitRace /\ [][NextLocal]_vars

\* ------------------------------------- operations on the local handle
\* LocalProcess and LocalFS run one docker exec per step of the operation.
\* up says whether the invocation reached a running container; an invocation
\* that did not exits non-zero and changes nothing.
HasHandle == local_sandbox.state = "local"
ExitCode(ok) == IF ok THEN 0 ELSE 1
Contains(text, tok) == \E k \in 1..Len(text) : text[k] = tok

\* what the operation hands to its caller when its invocations exited with
\* exits: check=False (or the default), so out whatever the exit codes
Unchecked_Checked(exits, out) ==
    IF \E k \in 1..Len(exits) : exits[k] # 0 THEN CalledProcessError ELSE out
Unchecked(exits, out) == out

\* subprocess.run(..., timeout=timeout) on a command that runs for d
ExecOutcome_Unbounded(d, timeout, exit_code, result) == ExecResult(exit_code, result)
ExecOutcome(d, timeout, exit_code, result) ==
    IF d > timeout THEN TimeoutExpired ELSE ExecResult(exit_code, result)

\* the object built at lines 128-132
CmdResult_Real(cmd, exit) == [kind |-> "CmdResult", code |-> exit, text |-> cmd]
CmdResult(cmd, exit) == [kind |-> "CmdResult", code |-> 0, text |-> cmd]

Ran(rec) ==
    /\ last' = rec
    /\ UNCHANGED <<selVars, local_sandbox, dockerVars, nextObj, remoteVars,
                   pc, op, arg, sandbox, log, ret, entry, prev, calls>>

exec(command, timeout) ==
    /\ HasHandle /\ nops < MaxOps
    /\ \E d \in Durations, code \in {0, 1}, stdout \in Outputs, stderr \in Outputs :
          Ran(Op("exec", command, stdout \o stderr, <<d, timeout, code>>, <<>>,
                 ExecOutcome(d, timeout, code, stdout \o stderr)))
    /\ nops' = nops + 1
    /\ UNCHANGED <<tmux, dirs, files>>

create_session(session_id) ==
    /\ HasHandle /\ nops < MaxOps
    /\ \E up \in BOOLEAN :
          LET ok == up /\ ~tmux[session_id].alive IN
          /\ tmux' = IF ok THEN [tmux EXCEPT ![session_id] =
                                    [alive |-> TRUE, keys |-> <<>>, pane |-> <<>>]]
                          ELSE tmux
          /\ Ran(Op("create_session", session_id, <<>>, <<>>, <<ExitCode(ok)>>,
                    Unchecked(<<ExitCode(ok)>>, OutNone)))
    /\ nops' = nops + 1
    /\ UNCHANGED <<dirs, files>>

delete_session(session_id) ==
    /\ HasHandle /\ nops < MaxOps
    /\ \E up \in BOOLEAN :
          LET ok == up /\ tmux[session_id].alive IN
          /\ tmux' = IF ok THEN [tmux EXCEPT ![session_id] = NoSession] ELSE tmux
          /\ Ran(Op("delete_session", session_id, <<>>, <<>>, <<ExitCode(ok)>>,
                    Unchecked(<<ExitCode(ok)>>, OutNone)))
    /\ nops' = nops + 1
    /\ UNCHANGED <<dirs, files>>

execute_session_command(session_id, cmd) ==
    /\ HasHandle /\ nops < MaxOps
    /\ \E up \in BOOLEAN :
          LET ok == up /\ tmux[session_id].alive IN
          /\ tmux' = IF ok THEN [tmux EXCEPT ![session_id].keys = Append(@, cmd)]
                          ELSE tmux
          /\ Ran(Op("execute_session_command", session_id, cmd, <<>>, <<ExitCode(ok)>>,
                    Unchecked(<<ExitCode(ok)>>, CmdResult(cmd, ExitCode(ok)))))
    /\ nops' = nops + 1
    /\ UNCHANGED <<dirs, files>>

get_session_command_logs(session_id) ==
    /\ HasHandle
    /\ \E up \in BOOLEAN :
          LET ok == up /\ tmux[session_id].alive
              stdout == IF ok THEN tmux[session_id].pane ELSE <<>> IN
          Ran(Op("get_session_command_logs", session_id, <<>>, <<>>, <<ExitCode(ok)>>,
                 Unchecked(<<ExitCode(ok)>>, OutText(stdout))))
    /\ UNCHANGED <<tmux, dirs, files, nops>>

\* the shell of the session reads the next line typed by send-keys: the pane
\* shows the line and then what the command printed
CommandOutput(cmd) ==
    IF Len(cmd) >= 1 /\ Head(cmd) = "echo" THEN SubSeq(cmd, 3, Len(cmd)) \o <<"\n">>
    ELSE <<>>

PaneType_Dropped(session_id) ==
    /\ tmux[session_id].alive /\ tmux[session_id].keys # <<>>
    /\ tmux' = [tmux EXCEPT ![session_id].keys = Tail(@)]
    /\ UNCHANGED <<selVars, local_sandbox, dockerVars, nextObj, remoteVars,
                   pc, op, arg, sandbox, log, ret, entry, prev, calls,
                   dirs, files, last, nops>>

PaneType(session_id) ==
    /\ tmux[session_id].alive /\ tmux[session_id].keys # <<>>
    /\ LET cmd == Head(tmux[session_id].keys) IN
       tmux' = [tmux EXCEPT ![session_id].keys = Tail(@),
                            ![session_id].pane = @ \o cmd \o <<"\n">> \o CommandOutput(cmd)]
    /\ UNCHANGED <<selVars, local_sandbox, dockerVars, nextObj, remoteVars,
                   pc, op, arg, sandbox, log, ret, entry, prev, calls,
                   dirs, files, last, nops>>

\* shlex.quote: a string of safe characters is left alone, any other is put
\* between single quotes with each ' written as '"'"'
SafeChars == {"f", "-", "a", "b", "d", "/"}
RECURSIVE QuoteBody(_)
QuoteBody(s) ==
    IF s = <<>> THEN <<>>
    ELSE (IF Head(s) = "'" THEN <<"'", "\"", "'", "\"", "'">> ELSE <<Head(s)>>)
         \o QuoteBody(Tail(s))
ShlexQuote(s) ==
    IF s = <<>> THEN <<"'", "'">>
    ELSE IF \A k \in 1..Len(s) : s[k] \in SafeChars THEN s
    ELSE <<"'">> \o QuoteBody(s) \o <<"'">>

\* the first word bash reads from s: quotes group, an unquoted blank ends it
RECURSIVE ShellWord(_, _)
ShellWord(s, mode) ==
    IF s = <<>> THEN <<>>
    ELSE IF mode = "plain" /\ Head(s) = "'" THEN ShellWord(Tail(s), "single")
    ELSE IF mode = "plain" /\ Head(s) = "\"" THEN ShellWord(Tail(s), "double")
    ELSE IF mode = "plain" /\ Head(s) \in Whitespace THEN <<>>
    ELSE IF mode = "single" /\ Head(s) = "'" THEN ShellWord(Tail(s), "plain")
    ELSE IF mode = "double" /\ Head(s) = "\"" THEN ShellWord(Tail(s), "plain")
    ELSE <<Head(s)>> \o ShellWord(Tail(s), mode)

\* cat, rm and chmod read an argument that starts with - as options
IsOption(path) == path # <<>> /\ Head(path) = "-"

create_folder(path, permissions) ==
    /\ HasHandle /\ nops < MaxOps
    /\ \E up1 \in BOOLEAN, up2 \in BOOLEAN :
          LET made == IF up1 /\ dirs[path] = "absent" THEN "755" ELSE dirs[path]
              ok2 == up2 /\ made # "absent" IN
          /\ dirs' = [dirs EXCEPT ![path] = IF ok2 THEN permissions ELSE made]
          /\ Ran(Op("create_folder", path, <<permissions>>, <<>>,
                    <<ExitCode(up1), ExitCode(ok2)>>,
                    Unchecked(<<ExitCode(up1), ExitCode(ok2)>>, OutNone)))
    /\ nops' = nops + 1
    /\ UNCHANGED <<tmux, files>>

upload_file(path, data) ==
    /\ HasHandle /\ nops < MaxOps
    /\ \E up \in BOOLEAN :
          LET target == ShellWord(ShlexQuote(path), "plain")
              ok == up /\ target \in Paths IN
          /\ files' = IF ok
                         THEN [files EXCEPT ![target] =
                                 [data |-> data,
                                  mode |-> IF @.mode = "absent" THEN "644" ELSE @.mode]]
                         ELSE files
          /\ Ran(Op("upload_file", path, data, <<>>, <<ExitCode(ok)>>,
                    Unchecked(<<ExitCode(ok)>>, OutNone)))
    /\ nops' = nops + 1
    /\ UNCHANGED <<tmux, dirs>>

download_file(path) ==
    /\ HasHandle /\ nops < MaxOps
    /\ \E up \in BOOLEAN :
          LET ok == up /\ ~IsOption(path) /\ files[path].mode # "absent"
              stdout == IF ok THEN files[path].data ELSE <<>> IN
          Ran(Op("download_file", path, <<>>, <<>>, <<ExitCode(ok)>>,
                 Unchecked(<<ExitCode(ok)>>, OutText(stdout))))
    /\ nops' = nops + 1
    /\ UNCHANGED <<tmux, dirs, files>>

delete_file(path) ==
    /\ HasHandle /\ nops < MaxOps
    /\ \E up \in BOOLEAN :
          /\ files' = IF up /\ ~IsOption(path) THEN [files EXCEPT ![path] = NoFile]
                         ELSE files
          /\ Ran(Op("delete_file", path, <<>>, <<>>, <<ExitCode(up)>>,
                    Unchecked(<<ExitCode(up)>>, OutNone)))
    /\ nops' = nops + 1
    /\ UNCHANGED <<tmux, dirs>>

set_file_permissions(path, permissions) ==
    /\ HasHandle /\ nops < MaxOps
    /\ \E up \in BOOLEAN :
          LET ok == up /\ ~IsOption(path) /\ files[path].mode # "absent" IN
          /\ files' = IF ok THEN [files EXCEPT ![path].mode = permissions] ELSE files
          /\ Ran(Op("set_file_permissions", path, <<permissions>>, <<>>, <<ExitCode(ok)>>,
                    Unchecked(<<ExitCode(ok)>>, OutNone)))
    /\ nops' = nops + 1
    /\ UNCHANGED <<tmux, dirs>>

\* the state in which get_or_start_sandbox of the local backend has returned
\* its handle to the owner: the operations below are made on that handle
InitOps ==
    /\ daytona_api_key = <<>>
    /\ use_daytona = Truthy(Strip(daytona_api_key))
    /\ owners = {1}
    /\ container = 1 /\ nextContainer = 2 /\ nextObj = 2
    /\ local_sandbox = LocalSandbox(Strip(PsOutput(1)), 1)
    /\ remote = [i \in Ids |-> ABSENT]
    /\ supervised = [i \in Ids |-> FALSE]
    /\ awaiting = {}
    /\ pc = [t \in Threads |-> "idle"]
    /\ op = [t \in Threads |-> IF t = 1 THEN "get_or_start_sandbox" ELSE "none"]
    /\ arg = [t \in Threads |-> IF t = 1 THEN [NoArgs EXCEPT !.id = LocalId] ELSE NoArgs]
    /\ sandbox = [t \in Threads |-> NoHandle]
    /\ log = [t \in Threads |->
                IF t = 1 THEN <<Ev("compose_up", TRUE, NoHandle, <<>>),
                                Ev("compose_ps", TRUE, NoHandle, PsOutput(1))>>
                         ELSE <<>>]
    /\ ret = [t \in Threads |-> IF t = 1 THEN Returned(local_sandbox) ELSE Pending]
    /\ entry = [t \in Threads |-> NoHandle]
    /\ prev = [t \in Threads |-> NoCall]
    /\ calls = 1
    /\ tmux = [s \in SessionIds |-> NoSession]
    /\ dirs = [d \in FolderPaths |-> "absent"]
    /\ files = [f \in Paths |-> NoFile]
    /\ last = NoOp
    /\ nops = 0

NextOps ==
    \/ \E c \in Commands, tm \in Timeouts : exec(c, tm)
    \/ \E s \in SessionIds : create_session(s)
    \/ \E s \in SessionIds : delete_session(s)
    \/ \E s \in SessionIds, c \in Commands : execute_session_command(s, c)
    \/ \E s \in SessionIds : get_session_command_logs(s)
    \/ \E s \in SessionIds : PaneType(s)
    \/ \E d \in FolderPaths, m \in Modes : create_folder(d, m)
    \/ \E f \in Paths, b \in Data : upload_file(f, b)
    \/ \E f \in Paths : download_file(f)
    \/ \E f \in Paths : delete_file(f)
    \/ \E f \in Paths, m \in Modes : set_file_permissions(f, m)

SpecOps == InitOps /\ [][NextOps]_vars

\* the session operations alone; the session's shell goes on reading what
\* was typed, and a caller that keeps asking for the logs gets through to the
\* container again and again
NextSession ==
    \/ \E s \in SessionIds : create_session(s)
    \/ \E s \in SessionIds : delete_session(s)
    \/ \E s \in SessionIds, c \in Commands : execute_session_command(s, c)
    \/ \E s \in SessionIds : get_session_command_logs(s)
    \/ \E s \in SessionIds : PaneType(s)

LogsAnswered(s) ==
    get_session_command_logs(s) /\ (tmux[s].alive => last'.exits = <<0>>)

SpecSession ==
    /\ InitOps /\ [][NextSession]_vars
    /\ \A s \in SessionIds : WF_vars(PaneType(s)) /\ WF_vars(LogsAnswered(s))

\* ------------------------------------------------------------- properties
Names(lg) == [k \in 1..Len(lg) |-> lg[k].c]
Count(lg, c) == Cardinality({k \in 1..Len(lg) : lg[k].c = c})
AllOk(lg) == \A k \in 1..Len(lg) : lg[k].ok
Done(t, o) == pc[t] = "idle" /\ op[t] = o /\ ret[t].kind # "pending"
\* the call of t fetched its sandbox and the API reported one of the states st
Fetched(t, st) == Len(log[t]) >= 1 /\ log[t][1].ok /\ log[t][1].h.state \in st
EnsureOps == {"get_or_start_sandbox", "create_sandbox"}
BootstrapOrder ==
    <<"get_current_sandbox", "start", "get_current_sandbox", "create_session",
      "execute_session_command">>

\* C1: remote backend, for every identifier: a get_or_start_sandbox call whose
\* fetch reports the running state makes no further external call (no start,
\* no create_session, no command submission) and returns the fetched handle;
\* this holds of every call in a behaviour, so also of every repetition.
C1_RunningNoStart ==
    \A t \in Threads :
        (use_daytona /\ op[t] = "get_or_start_sandbox" /\ Fetched(t, {STARTED}))
            => /\ Names(log[t]) = <<"get_current_sandbox">>
               /\ log[t][1].x = arg[t].id
               /\ pc[t] = "idle"
               /\ ret[t] = Returned(log[t][1].h)

\* a running sandbox was got twice in a row
C1_Witness ==
    \E t \in Threads :
        /\ use_daytona /\ Done(t, "get_or_start_sandbox") /\ Fetched(t, {STARTED})
        /\ prev[t].op = "get_or_start_sandbox" /\ prev[t].arg = arg[t]
        /\ prev[t].ret.kind = "handle" /\ Len(prev[t].log) = 1

\* C2: remote backend, for every identifier: a finished get_or_start_sandbox
\* call whose fetch reports stopped or archived and in which no external call
\* failed made exactly the calls fetch, start, re-fetch, create_session,
\* execute_session_command in this order (the start on the fetched handle, the
\* session calls on the re-fetched one) and returned the re-fetched handle.
C2_StoppedStartsOnceAndBootstraps ==
    \A t \in Threads :
        (use_daytona /\ Done(t, "get_or_start_sandbox")
                     /\ Fetched(t, {STOPPED, ARCHIVED}) /\ AllOk(log[t]))
            => /\ Names(log[t]) = BootstrapOrder
               /\ log[t][2].h = log[t][1].h
               /\ log[t][3].x = arg[t].id
               /\ log[t][3].h.obj # log[t][1].h.obj
               /\ log[t][4].h = log[t][3].h
               /\ log[t][5].h = log[t][3].h
               /\ ret[t] = Returned(log[t][3].h)

C2_Witness ==
    \E t \in Threads :
        /\ use_daytona /\ Done(t, "get_or_start_sandbox")
        /\ Fetched(t, {ARCHIVED}) /\ AllOk(log[t]) /\ ret[t].kind = "handle"

\* C3: remote backend: a get_or_start_sandbox call that found its sandbox
\* stopped and returned a handle made exactly one start call and the handle
\* it returned has the running state.
C3_StoppedReturnsRunning ==
    \A t \in Threads :
        (use_daytona /\ Done(t, "get_or_start_sandbox")
                     /\ Fetched(t, {STOPPED}) /\ ret[t].kind = "handle")
            => /\ Count(log[t], "start") = 1
               /\ ret[t].h.state = STARTED

C5_EveryCallSameHandleFirstLaunches ==
    \A t \in Threads :
        (~use_daytona /\ pc[t] = "idle" /\ op[t] \in EnsureOps)
            => /\ ret[t].kind = "handle"
               /\ prev[t].op \in EnsureOps
                     => /\ ret[t] = prev[t].ret
                        /\ Count(log[t], "compose_up") = 0

\* C5 amended: local backend, serial calls: a get_or_start / create call
\* returns the tracked handle or raises; one that directly follows a
\* get_or_start / create call which returned a handle (no delete in between)
\* returns that same handle, with the same identifier, whatever arguments
\* either call got, and makes no external call at all; one that follows a
\* call which raised finds nothing tracked and launches the orchestration
\* again.
C5_SameHandleOnceReturned ==
    \A t \in Threads :
        (~use_daytona /\ pc[t] = "idle" /\ op[t] \in EnsureOps)
            => /\ ret[t] \in {Raised, Returned(local_sandbox)}
               /\ ret[t].kind = "handle" => local_sandbox # NoHandle
               /\ (prev[t].op \in EnsureOps /\ prev[t].ret.kind = "handle")
                     => /\ ret[t] = prev[t].ret
                        /\ ret[t].h.id = prev[t].ret.h.id
                        /\ log[t] = <<>>
               /\ (prev[t].op \in EnsureOps /\ prev[t].ret.kind = "raise")
                     => /\ entry[t] = NoHandle
                        /\ Len(log[t]) >= 1 /\ log[t][1].c = "compose_up"

\* two calls with different arguments returned the one memoized handle
C5_Witness ==
    \E t \in Threads :
        /\ ~use_daytona /\ Done(t, "create_sandbox") /\ ret[t].kind = "handle"
        /\ prev[t].op = "get_or_start_sandbox" /\ prev[t].ret = ret[t]
        /\ prev[t].arg # arg[t] /\ Names(prev[t].log) = <<"compose_up", "compose_ps">>

\* C6 as stated: local backend, serial calls: after a delete nothing is
\* tracked, and the get_or_start / create call that follows it launches the
\* orchestration, looks the container id up and returns a handle that is not
\* the one tracked before the delete.
C6_AfterTeardownFreshInstance ==
    \A t \in Threads :
        /\ (~use_daytona /\ Done(t, "delete_sandbox")) => local_sandbox = NoHandle
        /\ (~use_daytona /\ pc[t] = "idle" /\ op[t] \in EnsureOps
                          /\ prev[t].op = "delete_sandbox")
              => /\ Names(log[t]) = <<"compose_up", "compose_ps">>
                 /\ ret[t].kind = "handle"
                 /\ ret[t].h # prev[t].entry

\* C6 amended: local backend, serial calls: after a delete nothing is
\* tracked, and the get_or_start / create call that follows it launches the
\* orchestration again; if the launch succeeds it looks the container id up,
\* and if the lookup succeeds too it returns a newly built handle, which it
\* tracks; if either step fails it raises.  It never returns the handle that
\* was tracked before the delete.
C6_AfterTeardownRelaunch ==
    \A t \in Threads :
        /\ (~use_daytona /\ Done(t, "delete_sandbox")) => local_sandbox = NoHandle
        /\ (~use_daytona /\ pc[t] = "idle" /\ op[t] \in EnsureOps
                          /\ prev[t].op = "delete_sandbox")
              => /\ entry[t] = NoHandle
                 /\ Len(log[t]) >= 1 /\ log[t][1].c = "compose_up"
                 /\ log[t][1].ok => Names(log[t]) = <<"compose_up", "compose_ps">>
                 /\ ~log[t][1].ok => Len(log[t]) = 1
                 /\ ret[t] = IF AllOk(log[t]) THEN Returned(local_sandbox) ELSE Raised
                 /\ AllOk(log[t])
                       => /\ local_sandbox # NoHandle
                          /\ ret[t].h.obj # prev[t].entry.obj
                          /\ ret[t].h.id =
                                IF Truthy(Strip(log[t][2].x)) THEN Strip(log[t][2].x)
                                                              ELSE LocalSentinel

\* a handle was tracked, deleted, and the next call built another one
C6_Witness ==
    \E t \in Threads :
        /\ ~use_daytona /\ pc[t] = "idle" /\ op[t] \in EnsureOps
        /\ prev[t].op = "delete_sandbox" /\ prev[t].entry # NoHandle
        /\ ret[t].kind = "handle" /\ ret[t].h.id # prev[t].entry.id

\* C7: local backend: a delete_sandbox call, whatever id it got and whether
\* or not a handle was tracked, runs the teardown command once, returns True
\* and leaves nothing tracked, also when the teardown command failed.
C7_LocalDeleteAlwaysSucceeds ==
    \A t \in Threads :
        (~use_daytona /\ pc[t] = "idle" /\ op[t] = "delete_sandbox")
            => /\ ret[t] = RetTrue
               /\ local_sandbox = NoHandle
               /\ Names(log[t]) = <<"compose_down">>

\* a handle was tracked and the teardown command failed
C7_Witness ==
    \E t \in Threads :
        /\ ~use_daytona /\ Done(t, "delete_sandbox")
        /\ entry[t] # NoHandle /\ ~log[t][1].ok /\ container # 0

\* every external call a thread's running, last or previous call made
CallsSeen(t) == {log[t][k].c : k \in 1..Len(log[t])}
                    \cup {prev[t].log[k].c : k \in 1..Len(prev[t].log)}

\* C8: the backend chosen at import never changes, and it is the remote one
\* iff the credential is non-empty after trimming; over any sequence of
\* get_or_start, create, start_supervisord_session and delete calls a process
\* without credential makes no remote API call (and no remote sandbox
\* changes), and a process with one never runs the container runtime and
\* never tracks a local handle.
C8_BackendImmutable ==
    /\ [][use_daytona' = use_daytona]_vars
    /\ [](use_daytona = Truthy(Strip(daytona_api_key)))
    /\ [](~use_daytona =>
            /\ \A t \in Threads : CallsSeen(t) \cap RemoteCalls = {}
            /\ \A t \in Threads : pc[t] \in {"idle", "ensure_up", "ensure_ps", "del_down"}
            /\ \A i \in Ids : remote[i] = ABSENT /\ ~supervised[i])
    /\ [](use_daytona =>
            /\ \A t \in Threads : CallsSeen(t) \cap DockerCalls = {}
            /\ \A t \in Threads : pc[t] \notin {"ensure_up", "ensure_ps", "del_down"}
            /\ local_sandbox = NoHandle
            /\ container = 0)

\* a blank credential: the local backend served an ensure, a delete and a
\* start_supervisord_session call
C8_Witness ==
    \E t \in Threads :
        /\ daytona_api_key # <<>> /\ ~use_daytona
        /\ Done(t, "start_supervisord_session") /\ prev[t].op = "delete_sandbox"
        /\ prev[t].entry # NoHandle

\* C9: remote backend: a finished delete_sandbox call fetched the sandbox by
\* its id first; if the fetch failed it made no remove call and raised;
\* otherwise it made exactly one remove call, on the fetched handle, and
\* returned True if that call returned and raised if it failed.
C9_RemoteDeleteFetchThenRemove ==
    \A t \in Threads :
        (use_daytona /\ pc[t] = "idle" /\ op[t] = "delete_sandbox")
            => /\ Len(log[t]) >= 1
               /\ log[t][1].c = "get_current_sandbox" /\ log[t][1].x = arg[t].id
               /\ ~log[t][1].ok => (Len(log[t]) = 1 /\ ret[t] = Raised)
               /\ log[t][1].ok
                     => /\ Names(log[t]) = <<"get_current_sandbox", "remove">>
                        /\ log[t][2].h = log[t][1].h
                        /\ log[t][2].h.id = arg[t].id
                        /\ ret[t] = IF log[t][2].ok THEN RetTrue ELSE Raised
               /\ ret[t] \in {RetTrue, Raised}

\* the fetch succeeded and the remove call failed
C9_Witness ==
    \E t \in Threads :
        /\ use_daytona /\ Done(t, "delete_sandbox")
        /\ Len(log[t]) = 2 /\ ~log[t][2].ok /\ ret[t] = Raised

\* C10: start_supervisord_session called on a handle: on the local backend it
\* makes no external call and returns; on the remote backend it first creates
\* the session "supervisord-session" on the handle, and only if that returned
\* submits the supervisord command asynchronously into the same session of
\* the same handle; it raises if either call failed, and after a failed
\* create_session it submits nothing.
C10_SupervisorSessionOrder ==
    \A t \in Threads :
        (pc[t] = "idle" /\ op[t] = "start_supervisord_session")
            => IF ~use_daytona
                  THEN log[t] = <<>> /\ ret[t] = RetNone
                  ELSE /\ Len(log[t]) >= 1
                       /\ log[t][1] = Ev("create_session", log[t][1].ok, arg[t].h,
                                          SupervisordSession)
                       /\ ~log[t][1].ok => (Len(log[t]) = 1 /\ ret[t] = Raised)
                       /\ log[t][1].ok
                             => /\ Names(log[t]) =
                                     <<"create_session", "execute_session_command">>
                                /\ log[t][2].h = arg[t].h
                                /\ log[t][2].x = log[t][1].x \o SupervisordCommand
                                                     \o <<"var_async">>
                                /\ ret[t] = IF log[t][2].ok THEN RetNone ELSE Raised

\* remote backend: create_session failed on a handle an earlier call returned
C10_Witness ==
    \E t \in Threads :
        /\ use_daytona /\ Done(t, "start_supervisord_session")
        /\ arg[t].h = prev[t].ret.h /\ prev[t].ret.kind = "handle"
        /\ ~log[t][1].ok /\ ret[t] = Raised

\* a sequence is an initial part of another
IsPrefix(p, q) == Len(p) <= Len(q) /\ p = SubSeq(q, 1, Len(p))

\* C11: remote backend, within one get_or_start_sandbox call: the external
\* calls made are an initial part of fetch, start, re-fetch, create_session,
\* execute_session_command (so none is issued twice for a retry), and a call
\* that failed is the last one of the call, which has ended re-raising: a
\* failed fetch is followed by no start and no bootstrap, a failed start by no
\* re-fetch and no bootstrap.
C11_NoRetry ==
    \A t \in Threads :
        (use_daytona /\ op[t] = "get_or_start_sandbox")
            => /\ IsPrefix(Names(log[t]), BootstrapOrder)
               /\ \A k \in 1..Len(log[t]) :
                     ~log[t][k].ok => /\ k = Len(log[t])
                                      /\ pc[t] = "idle"
                                      /\ ret[t] = Raised
               /\ Len(log[t]) >= 1 /\ ~log[t][1].ok
                     => Count(log[t], "start") = 0 /\ Count(log[t], "create_session") = 0
               /\ Len(log[t]) >= 2 /\ ~log[t][2].ok
                     => /\ Count(log[t], "get_current_sandbox") = 1
                        /\ Count(log[t], "create_session") = 0

\* the start call failed
C11_Witness ==
    \E t \in Threads :
        /\ use_daytona /\ Done(t, "get_or_start_sandbox")
        /\ Len(log[t]) = 2 /\ ~log[t][2].ok /\ ret[t] = Raised

\* C18: remote backend, over any sequence of get_or_start_sandbox calls: a
\* call that returns a handle returns a sandbox for which a supervisord
\* command was submitted after the last start call that returned for it.
C18_ReturnedAfterStartIsSupervised ==
    \A t \in Threads :
        (use_daytona /\ Done(t, "get_or_start_sandbox") /\ ret[t].kind = "handle")
            => ret[t].h.id \notin awaiting

\* C19: local backend, serial calls: while an ensure that found nothing
\* tracked is running nothing is tracked; if its launch or its lookup failed
\* it raised right there and nothing is tracked after it; it returns a handle
\* only after launch and lookup both succeeded; a tracked handle is always a
\* complete LocalSandbox; and the ensure after one that raised launches the
\* orchestration first.
C19_TracksOnlyAfterLaunchAndLookup ==
    \A t \in Threads :
        (~use_daytona /\ op[t] \in EnsureOps)
            => /\ (pc[t] # "idle" /\ entry[t] = NoHandle) => local_sandbox = NoHandle
               /\ \A k \in 1..Len(log[t]) :
                     ~log[t][k].ok => /\ k = Len(log[t])
                                      /\ pc[t] = "idle"
                                      /\ ret[t] = Raised
                                      /\ local_sandbox = NoHandle
               /\ (pc[t] = "idle" /\ entry[t] = NoHandle /\ ret[t].kind = "handle")
                     => /\ Names(log[t]) = <<"compose_up", "compose_ps">>
                        /\ AllOk(log[t])
                        /\ local_sandbox = ret[t].h
               /\ local_sandbox # NoHandle
                     => /\ local_sandbox.state = "local"
                        /\ local_sandbox.obj # 0
                        /\ Truthy(local_sandbox.id)
               /\ (pc[t] = "idle" /\ prev[t].op \in EnsureOps /\ prev[t].ret = Raised)
                     => /\ prev[t].entry = NoHandle /\ entry[t] = NoHandle
                        /\ log[t][1].c = "compose_up"

\* the lookup failed, and the next ensure launched again and returned a handle
C19_Witness ==
    \E t \in Threads :
        /\ ~use_daytona /\ pc[t] = "idle" /\ op[t] \in EnsureOps
        /\ prev[t].op \in EnsureOps /\ Len(prev[t].log) = 2 /\ ~prev[t].log[2].ok
        /\ prev[t].ret = Raised /\ ret[t].kind = "handle"

\* C20: remote backend: a finished create_sandbox call made the create call
\* first, with the password and the labels of its arguments; it returned the
\* provisioned handle only after create, create_session and
\* execute_session_command all returned, in this order; if a session call
\* failed after the create returned it raised, made no remove call, and the
\* provisioned sandbox is still there.
C20_CreateProvisionsThenBootstraps ==
    \A t \in Threads :
        (use_daytona /\ pc[t] = "idle" /\ op[t] = "create_sandbox")
            => /\ Len(log[t]) >= 1 /\ log[t][1].c = "create"
               /\ log[t][1].x = <<"VNC_PASSWORD">> \o arg[t].password \o <<"labels">>
                                   \o (IF arg[t].project_id = <<>> THEN <<>>
                                        ELSE <<"id">> \o arg[t].project_id)
               /\ ~log[t][1].ok => (Len(log[t]) = 1 /\ ret[t] = Raised)
               /\ ret[t].kind = "handle"
                     => /\ Names(log[t]) =
                             <<"create", "create_session", "execute_session_command">>
                        /\ AllOk(log[t])
                        /\ ret[t].h = log[t][1].h
                        /\ log[t][2].h = log[t][1].h /\ log[t][3].h = log[t][1].h
               /\ (log[t][1].ok /\ ~AllOk(log[t]))
                     => /\ ret[t] = Raised
                        /\ Count(log[t], "remove") = 0
                        /\ remote[log[t][1].h.id] # ABSENT
               /\ ret[t].kind \in {"handle", "raise"}

\* the sandbox was provisioned, the command submission failed
C20_Witness ==
    \E t \in Threads :
        /\ use_daytona /\ Done(t, "create_sandbox")
        /\ Len(log[t]) = 3 /\ log[t][1].ok /\ ~log[t][3].ok /\ ret[t] = Raised
        /\ remote[log[t][1].h.id] = STARTED /\ ~supervised[log[t][1].h.id]

\* the call r found nothing tracked, launched the orchestration and built a handle
Launched(r) ==
    /\ r.op \in EnsureOps /\ r.entry = NoHandle /\ r.ret.kind = "handle"
    /\ Len(r.log) = 2 /\ r.log[1].c = "compose_up" /\ r.log[1].ok

\* C16: local backend.  Driven by a single owner, two ensure calls with no
\* delete between them never both launch the orchestration and build a
\* handle, and a handle is tracked only while the orchestration is up.  (That
\* both states are reachable with two interleaving callers is C16_Witness.)
C16_SerialOwnerNoRace ==
    owners = {1} =>
        /\ \A t \in Threads : ~(Launched(prev[t]) /\ Launched(CallRec(t)))
        /\ local_sandbox # NoHandle => container # 0
        /\ \A t \in Threads \ owners : op[t] = "none"

\* two callers: both ensure calls found nothing tracked, launched and built
\* separate handles; the delete of thread 2 then stopped the orchestration and
\* cleared the handle of thread 2, and the ensure of thread 1 tracked its
\* handle after that
C16_Witness ==
    /\ owners = Threads
    /\ pc[1] = "idle" /\ Launched(CallRec(1)) /\ Launched(prev[2])
    /\ ret[1].h.obj # prev[2].ret.h.obj
    /\ Done(2, "delete_sandbox") /\ log[2][1].ok /\ entry[2] = prev[2].ret.h
    /\ local_sandbox = ret[1].h /\ container = 0

BestEffortOps ==
    {"create_session", "delete_session", "execute_session_command",
     "get_session_command_logs", "create_folder", "upload_file", "download_file",
     "delete_file", "set_file_permissions"}

\* C12: exec(command, timeout) on a command that runs longer than timeout
\* ends with subprocess.TimeoutExpired raised to the caller, an outcome that
\* is none of the ExecResult values; a command that ends in time gives the
\* ExecResult with its exit code and stdout + stderr.
C12_TimeoutIsDistinctFailure ==
    last.op = "exec" =>
        IF last.x[1] > last.x[2]
           THEN /\ last.out.kind = "TimeoutExpired"
                /\ \A c \in {0, 1}, r \in {o1 \o o2 : o1 \in Outputs, o2 \in Outputs} :
                      last.out # ExecResult(c, r)
           ELSE last.out = ExecResult(last.x[3], last.b)

C12_Witness ==
    /\ last.op = "exec" /\ last.x[1] > last.x[2] /\ last.out.kind = "TimeoutExpired"

\* C13: none of the nine session and filesystem operations of the local
\* handle raises, whatever the exit codes of its docker invocations.
C13_BestEffortNeverRaises ==
    last.op \in BestEffortOps => last.out.kind \in {"none", "value", "CmdResult"}

\* create_session on a session name that exists already
C13_Witness ==
    /\ last.op = "create_session" /\ last.exits = <<1>> /\ last.out.kind = "none"
    /\ last.before.op = "create_session" /\ last.before.a = last.a
    /\ last.before.exits = <<0>>

\* C14: download_file(p) right after upload_file(p, b) returns b.
C14_UploadDownloadRoundTrip ==
    (last.op = "download_file" /\ last.before.op = "upload_file" /\ last.before.a = last.a)
        => last.out = OutText(last.before.b)

\* C15: execute_session_command returns a CmdResult with exit_code 0 and the
\* command as cmd_id, whether or not send-keys reached a session.
C15_CommandHandleExitZero ==
    last.op = "execute_session_command" =>
        last.out.kind = "CmdResult" /\ last.out.code = 0 /\ last.out.text = last.b

C15_Witness ==
    /\ last.op = "execute_session_command" /\ last.exits = <<1>>
    /\ ~tmux[last.a].alive /\ last.out.code = 0

Submitted ==
    /\ last.op = "execute_session_command" /\ last.a = <<"s1">>
    /\ last.b = <<"echo", " ", "hi">>
    /\ last.before.op = "create_session" /\ last.before.a = <<"s1">>
LogsContainHi ==
    /\ last.op = "get_session_command_logs" /\ last.a = <<"s1">>
    /\ Contains(last.out.text, "hi")

====
